---- MODULE Spec2Model ----
(***************************************************************************)
(* Model of src/app.py: the ingestion pipeline of process-reports.         *)
(*                                                                         *)
(* One Flask process after its module start-up (token, heartbeat, client,  *)
(* collection handle) serving /process requests, each a run                *)
(* of process_file: download -> extract_text_from_pdf ->                   *)
(* generate_gemini_response -> store_embeddings_in_chroma                  *)
(* (generate_embeddings, collection.add) -> JSON response.                 *)
(*                                                                         *)
(* Text is a sequence of one-character strings.  A Python value that may   *)
(* be None is modelled as a sequence of length 0 (None) or 1 (Some(v)).    *)
(***************************************************************************)
EXTENDS Integers, Sequences, FiniteSets, TLC

\* ------------------------------------------------------------------ bounds
\* Number of /process requests the process serves (each may overlap the others).
NumRuns == 2
\* Largest number of pages of the documents given to extract_text_from_pdf alone.
MaxPages == 3

\* ------------------------------------------------------- program constants
FILE_NAME == "sample_cast_report.pdf"
COLLECTION_NAME == "cast_highlight_reports"
\* text[:500] in the metadata of a stored record
ContentLimit == 500
\* status of the error response of process_file
ErrorStatus == 500
\* status Flask gives a bare jsonify(...) return
OkStatus == 200

Runs == 1..NumRuns

\* --------------------------------------------------------- Python values
None == <<>>
Some(v) == <<v>>
Val(o) == o[1]

Return(v) == [raised |-> FALSE, value |-> v]
Raise(e) == [raised |-> TRUE, value |-> e]

NL == "\n"

\* A page of n copies of the character c.
PageOf(n, c) == [i \in 1..n |-> c]

\* The objects the bucket may hold under FILE_NAME: a zero-page document,
\* a two-page document whose text has exactly 500 characters, a three-page
\* document whose text has 502, and bytes that are not a PDF.
ZeroPageDoc == [valid |-> TRUE, pages |-> <<>>]
ExactDoc == [valid |-> TRUE, pages |-> << PageOf(250, "p"), PageOf(249, "q") >>]
LongDoc == [valid |-> TRUE, pages |-> << <<"A">>, <<"B">>, PageOf(498, "x") >>]
CorruptDoc == [valid |-> FALSE, pages |-> <<>>]

Blobs == {ZeroPageDoc, ExactDoc, LongDoc, CorruptDoc}

\* The objects the bucket may hold in the runs that follow a start-up whose
\* every outcome is explored.
StartupBlobs == {LongDoc, CorruptDoc}

\* The page texts and the documents given to extract_text_from_pdf alone.
PageTexts == {<<>>, <<"A">>, <<"B">>, <<"C">>, <<"D", "E">>}
ExtractDocs ==
  {[valid |-> TRUE, pages |-> p] :
     p \in UNION {[1..n -> PageTexts] : n \in 0..MaxPages}} \cup {CorruptDoc}

\* Texts the completion service may answer with.
Summaries == {"A greeting and a salutation."}

\* A record already in the collection when the process starts.
OtherRecord ==
  [id |-> "other_report.pdf",
   embedding |-> <<"embedding", <<"o">>>>,
   metadata |-> [file_name |-> "other_report.pdf", content |-> <<"o">>]]

VARIABLES
  main_pc,          \* position of the module's top-level code, "serving" in app.run
  calls,            \* how often each start-up call has been made
  token_expired,    \* the identity token fetched at start-up is past its lifetime
  IAM_TOKEN,        \* global IAM_TOKEN: None or Some(token)
  heartbeat,        \* outcome of the heartbeat probe: "unknown", "ok" or "fail"
  chroma_client,    \* global chroma_client: "unbound" or "bound"
  collection,       \* global collection (the handle): "unbound" or "bound"
  db,               \* records of the collection in the vector database
  pc,               \* per run: position in process_file
  pdf_bytes,        \* per run: None or Some(blob)
  extracted_text,   \* per run: None or Some(text)
  gemini_response,  \* per run: None or Some(summary)
  embedding_vector, \* per run: None or Some(vector)
  response,         \* per run: None or Some([status, body])
  log,              \* per run: the collaborator calls made, with their outcomes
  started_after,    \* per run: the runs that had finished when it started
  last_writer       \* None or Some(the run whose collection.add returned last)

globals == <<main_pc, calls, token_expired, IAM_TOKEN, heartbeat, chroma_client,
             collection>>
locals == <<pc, pdf_bytes, extracted_text, gemini_response, embedding_vector,
            response, log, started_after>>
vars == <<globals, db, locals, last_writer>>

\* ------------------------------------------------------ pure functions

\* "\n".join(texts)
RECURSIVE Join(_)
Join(texts) ==
  IF Len(texts) = 0 THEN <<>>
  ELSE IF Len(texts) = 1 THEN texts[1]
  ELSE texts[1] \o <<NL>> \o Join(Tail(texts))

\* text[:n]
Slice(text, n) == SubSeq(text, 1, IF Len(text) < n THEN Len(text) ELSE n)

\* Variant: bytes that do not parse are read as an empty document.
extract_text_lenient(bytes) ==
  IF bytes.valid THEN Return(Join(bytes.pages)) ELSE Return(<<>>)

\* Variant: a newline is written after every page, the last one included.
extract_text_newline_each(bytes) ==
  IF bytes.valid
    THEN Return(IF Len(bytes.pages) = 0 THEN <<>> ELSE Join(bytes.pages) \o <<NL>>)
    ELSE Raise("cannot open broken document")

\* fitz.open(stream=pdf_bytes, filetype="pdf"); "\n".join(page.get_text(..))
extract_text_from_pdf(bytes) ==
  IF bytes.valid THEN Return(Join(bytes.pages))
  ELSE Raise("cannot open broken document")

\* blob.download_as_bytes(): the object, or NotFound / a network error
download_as_bytes(blob) ==
  IF blob = None THEN Raise("404 No such object") ELSE Return(Val(blob))

\* Variant: the exception of the completion service is not caught.
generate_gemini_response_uncaught(text, answer) ==
  IF answer = None THEN Raise("ServiceError") ELSE Return(answer)

\* generate_gemini_response: every exception of the service becomes None
generate_gemini_response(text, answer) ==
  IF answer = None THEN Return(None) ELSE Return(answer)

\* genai.embed_content(content=text)["embedding"]: a function of the content
embed_content(content) == <<"embedding", content>>

\* Variant: an empty text is not sent to the embedding service.
generate_embeddings_skip_empty(text, service_ok) ==
  IF service_ok /\ Len(text) > 0 THEN Return(Some(embed_content(text)))
  ELSE Return(None)

\* generate_embeddings: every exception of the service becomes None
generate_embeddings(text, service_ok) ==
  IF service_ok THEN Return(Some(embed_content(text))) ELSE Return(None)

\* Variant: the slice is one character short.
MetadataOffByOne(file_name, text) ==
  [file_name |-> file_name, content |-> Slice(text, ContentLimit - 1)]

\* the metadatas argument of collection.add
Metadata(file_name, text) ==
  [file_name |-> file_name, content |-> Slice(text, ContentLimit)]

Record(file_name, vector, text) ==
  [id |-> file_name, embedding |-> vector, metadata |-> Metadata(file_name, text)]

Ids(records) == {rec.id : rec \in records}

\* Variant: the credential is fetched anew for every call.
bearer_credential_refreshed(token, expired) ==
  [token |-> Some("token"), expired |-> FALSE]

\* the Authorization header of every call of the client: built once from
\* IAM_TOKEN at start-up (lines 44, 53), whatever has become of the token
bearer_credential(token, expired) == [token |-> token, expired |-> expired]

\* what the vector database may answer to a call with this credential: it
\* refuses an expired credential, and may be unreachable at any time
server_outcomes(credential) ==
  IF credential.expired THEN {"unauthorized"} ELSE {"ok", "unavailable"}

\* Variant: a missing handle is obtained when the record is added.
collection_add_lazy_handle(handle, records, rec, server, duplicates) ==
  IF server # "ok"
    THEN [raised |-> TRUE, outcome |-> server, db |-> records]
  ELSE IF rec.id \in {x.id : x \in records}
    THEN IF duplicates = "reject"
           THEN [raised |-> TRUE, outcome |-> "duplicate", db |-> records]
           ELSE [raised |-> FALSE, outcome |-> "ignored", db |-> records]
  ELSE [raised |-> FALSE, outcome |-> "stored", db |-> records \cup {rec}]

\* Variant: the collection is emptied before the record is added.
collection_add_after_reset(handle, records, rec, server, duplicates) ==
  IF handle = "unbound"
    THEN [raised |-> TRUE, outcome |-> "NameError", db |-> records]
  ELSE IF server # "ok"
    THEN [raised |-> TRUE, outcome |-> server, db |-> records]
  ELSE [raised |-> FALSE, outcome |-> "stored", db |-> {rec}]

\* collection.add(ids=[id], embeddings=[..], metadatas=[..]) against the
\* database: server is "ok", "unavailable" (connectivity) or "unauthorized"
\* (credential refused); an id that is already present is never replaced:
\* depending on the server's version the call is ignored ("ignore") or
\* raises ("reject").
collection_add(handle, records, rec, server, duplicates) ==
  IF handle = "unbound"
    THEN [raised |-> TRUE, outcome |-> "NameError", db |-> records]
  ELSE IF server # "ok"
    THEN [raised |-> TRUE, outcome |-> server, db |-> records]
  ELSE IF rec.id \in Ids(records)
    THEN IF duplicates = "reject"
           THEN [raised |-> TRUE, outcome |-> "duplicate", db |-> records]
           ELSE [raised |-> FALSE, outcome |-> "ignored", db |-> records]
  ELSE [raised |-> FALSE, outcome |-> "stored", db |-> records \cup {rec}]

\* the try/except of store_embeddings_in_chroma around collection.add:
\* the exception is logged and the function returns normally
store_in_chroma(handle, records, rec, server, duplicates) ==
  [collection_add(handle, records, rec, server, duplicates) EXCEPT !.raised = FALSE]

\* jsonify({"message": ..., "file": ..., "gemini_summary": ...})
SuccessResponse(summary) ==
  [status |-> OkStatus,
   body |-> [message |-> "Processing complete", file |-> FILE_NAME,
             gemini_summary |-> summary]]

\* jsonify({"error": str(e)}), 500
ErrorResponse(e) == [status |-> ErrorStatus, body |-> [error |-> e]]

Entry(step, result) == [step |-> step, result |-> result]

\* ------------------------------------------------------ module start-up
\* Lines 32-63, run once when the module is imported, before app.run serves
\* the first request.  env says which of the four external calls succeed.
\* A failed step is logged and the next step runs: a failed client
\* construction leaves chroma_client unbound, so get_or_create_collection
\* raises NameError and collection stays unbound as well.
module_startup(env) ==
  [IAM_TOKEN |-> IF env.token THEN Some("token") ELSE None,
   heartbeat |-> IF env.heartbeat THEN "ok" ELSE "fail",
   chroma_client |-> IF env.client THEN "bound" ELSE "unbound",
   collection |-> IF env.client /\ env.collection THEN "bound" ELSE "unbound"]

\* Start-ups in which the token fetch and the heartbeat succeed; the client
\* construction and get_or_create_collection may fail.
StartupEnvs ==
  [token : {TRUE}, heartbeat : {TRUE}, client : BOOLEAN, collection : BOOLEAN]

\* ---------------------------------------------------------------- Init
InitRuns ==
  /\ db = {OtherRecord}
  /\ pc = [r \in Runs |-> "idle"]
  /\ pdf_bytes = [r \in Runs |-> None]
  /\ extracted_text = [r \in Runs |-> None]
  /\ gemini_response = [r \in Runs |-> None]
  /\ embedding_vector = [r \in Runs |-> None]
  /\ response = [r \in Runs |-> None]
  /\ log = [r \in Runs |-> <<>>]
  /\ started_after = [r \in Runs |-> {}]
  /\ last_writer = None

Init ==
  /\ \E env \in StartupEnvs :
       LET g == module_startup(env) IN
       /\ IAM_TOKEN = g.IAM_TOKEN
       /\ heartbeat = g.heartbeat
       /\ chroma_client = g.chroma_client
       /\ collection = g.collection
  /\ main_pc = "serving"
  /\ calls = [token |-> 1, heartbeat |-> 1, client |-> 1, get_or_create |-> 1]
  /\ token_expired = FALSE
  /\ InitRuns

\* ------------------------------------------------------- process_file
Finished(r) == pc[r] \in {"Done", "Aborted"}

\* Variant: the exception leaves process_file, no response is built.
AbortWithoutResponse(r, e) ==
  /\ pc' = [pc EXCEPT ![r] = "Aborted"]
  /\ UNCHANGED response

\* Variant: on an exception the request is processed again from the start.
AbortAndRetry(r, e) ==
  /\ pc' = [pc EXCEPT ![r] = "Fetching"]
  /\ UNCHANGED response

\* the except clause of process_file
Abort(r, e) ==
  /\ pc' = [pc EXCEPT ![r] = "Aborted"]
  /\ response' = [response EXCEPT ![r] = Some(ErrorResponse(e))]

\* the return of process_file after store_embeddings_in_chroma returned
Complete(r, summary) ==
  /\ pc' = [pc EXCEPT ![r] = "Done"]
  /\ response' = [response EXCEPT ![r] = Some(SuccessResponse(summary))]

\* Variant: requests are served while the module's start-up code still runs.
ServingFromImport == TRUE

\* app.run is called after the module's start-up code (lines 146-147)
Serving == main_pc = "serving"

\* Variant: the text is stored only when there is a summary.
StoredTextIfSummary(r) ==
  IF gemini_response[r] = None THEN <<>> ELSE Val(extracted_text[r])

\* the text process_file passes to store_embeddings_in_chroma (line 139)
StoredText(r) == Val(extracted_text[r])

\* A request arrives and Flask calls process_file in a new thread.  Runs are
\* numbered in the order their requests arrive.
StartRun(r) ==
  /\ Serving
  /\ pc[r] = "idle"
  /\ \A q \in Runs : q < r => pc[q] # "idle"
  /\ pc' = [pc EXCEPT ![r] = "Fetching"]
  /\ started_after' = [started_after EXCEPT ![r] = {q \in Runs : Finished(q)}]
  /\ UNCHANGED <<globals, db, pdf_bytes, extracted_text, gemini_response,
                 embedding_vector, response, log, last_writer>>

FetchingFrom(r, blobs) ==
  /\ pc[r] = "Fetching"
  /\ \E blob \in {None} \cup {Some(b) : b \in blobs} :
       LET res == download_as_bytes(blob) IN
       IF res.raised
         THEN /\ Abort(r, res.value)
              /\ log' = [log EXCEPT ![r] = Append(@, Entry("fetch", "fail"))]
              /\ UNCHANGED pdf_bytes
         ELSE /\ pdf_bytes' = [pdf_bytes EXCEPT ![r] = Some(res.value)]
              /\ pc' = [pc EXCEPT ![r] = "Extracting"]
              /\ log' = [log EXCEPT ![r] = Append(@, Entry("fetch", "ok"))]
              /\ UNCHANGED response
  /\ UNCHANGED <<globals, db, extracted_text, gemini_response, embedding_vector,
                 started_after, last_writer>>

Fetching(r) == FetchingFrom(r, Blobs)

Extracting(r) ==
  /\ pc[r] = "Extracting"
  /\ LET res == extract_text_from_pdf(Val(pdf_bytes[r])) IN
     IF res.raised
       THEN /\ Abort(r, res.value)
            /\ log' = [log EXCEPT ![r] = Append(@, Entry("extract", "fail"))]
            /\ UNCHANGED extracted_text
       ELSE /\ extracted_text' = [extracted_text EXCEPT ![r] = Some(res.value)]
            /\ pc' = [pc EXCEPT ![r] = "Summarizing"]
            /\ log' = [log EXCEPT ![r] = Append(@, Entry("extract", "ok"))]
            /\ UNCHANGED response
  /\ UNCHANGED <<globals, db, pdf_bytes, gemini_response, embedding_vector,
                 started_after, last_writer>>

Summarizing(r) ==
  /\ pc[r] = "Summarizing"
  /\ \E answer \in {None} \cup {Some(s) : s \in Summaries} :
       LET res == generate_gemini_response(Val(extracted_text[r]), answer)
           result == IF answer = None THEN "fail" ELSE "ok" IN
       /\ log' = [log EXCEPT ![r] = Append(@, Entry("summarize", result))]
       /\ IF res.raised
            THEN /\ Abort(r, res.value)
                 /\ UNCHANGED gemini_response
            ELSE /\ gemini_response' = [gemini_response EXCEPT ![r] = res.value]
                 /\ pc' = [pc EXCEPT ![r] = "Embedding"]
                 /\ UNCHANGED response
  /\ UNCHANGED <<globals, db, pdf_bytes, extracted_text, embedding_vector,
                 started_after, last_writer>>

\* store_embeddings_in_chroma, lines 98-101: generate_embeddings, and the
\* early return (then process_file returns its success response)
Embedding(r) ==
  /\ pc[r] = "Embedding"
  /\ \E service_ok \in BOOLEAN :
       LET res == generate_embeddings(StoredText(r), service_ok)
           result == IF service_ok THEN "ok" ELSE "fail" IN
       /\ log' = [log EXCEPT ![r] = Append(@, Entry("embed", result))]
       /\ IF res.raised
            THEN /\ Abort(r, res.value)
                 /\ UNCHANGED embedding_vector
            ELSE /\ embedding_vector' = [embedding_vector EXCEPT ![r] = res.value]
                 /\ IF res.value = None
                      THEN Complete(r, gemini_response[r])
                      ELSE /\ pc' = [pc EXCEPT ![r] = "Storing"]
                           /\ UNCHANGED response
  /\ UNCHANGED <<globals, db, pdf_bytes, extracted_text, gemini_response,
                 started_after, last_writer>>

\* store_embeddings_in_chroma, lines 105-120: collection.add inside try/except,
\* then the return of process_file
Storing(r) ==
  /\ pc[r] = "Storing"
  /\ \E server \in server_outcomes(bearer_credential(IAM_TOKEN, token_expired)),
        duplicates \in {"ignore", "reject"} :
       LET rec == Record(FILE_NAME, Val(embedding_vector[r]), StoredText(r))
           res == store_in_chroma(collection, db, rec, server, duplicates) IN
       /\ db' = res.db
       /\ log' = [log EXCEPT ![r] = Append(@, Entry("store", res.outcome))]
       /\ last_writer' = IF res.outcome \in {"stored", "ignored"}
                           THEN Some(r) ELSE last_writer
       /\ IF res.raised
            THEN Abort(r, res.outcome)
            ELSE Complete(r, gemini_response[r])
  /\ UNCHANGED <<globals, pdf_bytes, extracted_text, gemini_response,
                 embedding_vector, started_after>>

Next ==
  \/ \E r \in Runs : StartRun(r)
  \/ \E r \in Runs : Fetching(r)
  \/ \E r \in Runs : Extracting(r)
  \/ \E r \in Runs : Summarizing(r)
  \/ \E r \in Runs : Embedding(r)
  \/ \E r \in Runs : Storing(r)

Spec == Init /\ [][Next]_vars

\* ------------------------------------------- the process from its import
\* The module's top-level code as steps, each external call succeeding or
\* failing, then the requests.  Every start-up outcome is explored.
runs == <<db, locals, last_writer>>

\* the outcome of one start-up call, the others having succeeded
Outcome(field, ok) ==
  module_startup([token |-> IF field = "token" THEN ok ELSE TRUE,
                  heartbeat |-> IF field = "heartbeat" THEN ok ELSE TRUE,
                  client |-> IF field = "client" THEN ok ELSE TRUE,
                  collection |-> IF field = "collection" THEN ok ELSE TRUE])

Count(call) == [calls EXCEPT ![call] = @ + 1]

InitImport ==
  /\ main_pc = "token"
  /\ calls = [token |-> 0, heartbeat |-> 0, client |-> 0, get_or_create |-> 0]
  /\ token_expired = FALSE
  /\ IAM_TOKEN = None
  /\ heartbeat = "unknown"
  /\ chroma_client = "unbound"
  /\ collection = "unbound"
  /\ InitRuns

\* lines 32-41
FetchToken ==
  /\ main_pc = "token"
  /\ \E ok \in BOOLEAN : IAM_TOKEN' = Outcome("token", ok).IAM_TOKEN
  /\ calls' = Count("token")
  /\ main_pc' = "heartbeat"
  /\ UNCHANGED <<token_expired, heartbeat, chroma_client, collection, runs>>

\* lines 43-49: the outcome is logged, nothing else
Heartbeat ==
  /\ main_pc = "heartbeat"
  /\ \E ok \in BOOLEAN : heartbeat' = Outcome("heartbeat", ok).heartbeat
  /\ calls' = Count("heartbeat")
  /\ main_pc' = "client"
  /\ UNCHANGED <<token_expired, IAM_TOKEN, chroma_client, collection, runs>>

\* lines 51-56
InitClient ==
  /\ main_pc = "client"
  /\ \E ok \in BOOLEAN : chroma_client' = Outcome("client", ok).chroma_client
  /\ calls' = Count("client")
  /\ main_pc' = "collection"
  /\ UNCHANGED <<token_expired, IAM_TOKEN, heartbeat, collection, runs>>

\* lines 58-63: with chroma_client unbound the statement raises NameError;
\* calls counts the executions of the statement
GetOrCreateCollection ==
  /\ main_pc = "collection"
  /\ \E ok \in BOOLEAN :
       collection' = module_startup([token |-> TRUE, heartbeat |-> TRUE,
                                     client |-> chroma_client = "bound",
                                     collection |-> ok]).collection
  /\ calls' = Count("get_or_create")
  /\ main_pc' = "serving"
  /\ UNCHANGED <<token_expired, IAM_TOKEN, heartbeat, chroma_client, runs>>

\* the lifetime of the identity token ends while the process serves
TokenExpires ==
  /\ Serving
  /\ IAM_TOKEN # None
  /\ ~token_expired
  /\ token_expired' = TRUE
  /\ UNCHANGED <<main_pc, calls, IAM_TOKEN, heartbeat, chroma_client, collection,
                 runs>>

NextImport ==
  \/ FetchToken
  \/ Heartbeat
  \/ InitClient
  \/ GetOrCreateCollection
  \/ TokenExpires
  \/ \E r \in Runs : StartRun(r)
  \/ \E r \in Runs : FetchingFrom(r, StartupBlobs)
  \/ \E r \in Runs : Extracting(r)
  \/ \E r \in Runs : Summarizing(r)
  \/ \E r \in Runs : Embedding(r)
  \/ \E r \in Runs : Storing(r)

SpecImport == InitImport /\ [][NextImport]_vars

\* ------------------------------------------------ extraction on its own
\* A run that has downloaded one of ExtractDocs and is about to extract it,
\* in a process whose start-up succeeded.
InitExtract ==
  /\ \E doc \in ExtractDocs :
       pdf_bytes = [r \in Runs |-> IF r = 1 THEN Some(doc) ELSE None]
  /\ LET g == module_startup([token |-> TRUE, heartbeat |-> TRUE,
                              client |-> TRUE, collection |-> TRUE]) IN
       /\ IAM_TOKEN = g.IAM_TOKEN
       /\ heartbeat = g.heartbeat
       /\ chroma_client = g.chroma_client
       /\ collection = g.collection
  /\ main_pc = "serving"
  /\ calls = [token |-> 1, heartbeat |-> 1, client |-> 1, get_or_create |-> 1]
  /\ token_expired = FALSE
  /\ db = {OtherRecord}
  /\ pc = [r \in Runs |-> IF r = 1 THEN "Extracting" ELSE "idle"]
  /\ extracted_text = [r \in Runs |-> None]
  /\ gemini_response = [r \in Runs |-> None]
  /\ embedding_vector = [r \in Runs |-> None]
  /\ response = [r \in Runs |-> None]
  /\ log = [r \in Runs |-> IF r = 1 THEN <<Entry("fetch", "ok")>> ELSE <<>>]
  /\ started_after = [r \in Runs |-> {}]
  /\ last_writer = None

NextExtract == \E r \in Runs : Extracting(r)

SpecExtract == InitExtract /\ [][NextExtract]_vars

\* ============================================================ properties

\* what the log of run r says about a collaborator call
Called(r, step) == \E i \in 1..Len(log[r]) : log[r][i].step = step
StepResult(r, step) ==
  IF Called(r, step)
    THEN log[r][CHOOSE i \in 1..Len(log[r]) : log[r][i].step = step].result
    ELSE "not called"

Steps(r) == [i \in 1..Len(log[r]) |-> log[r][i].step]

\* collection.add returned normally / raised
WriteReturned(r) == StepResult(r, "store") \in {"stored", "ignored"}
WriteRaised(r) ==
  StepResult(r, "store") \in {"NameError", "unavailable", "unauthorized", "duplicate"}

\* the response of run r is the success / the error response
IsSuccess(r) ==
  /\ response[r] # None
  /\ Val(response[r]).status = OkStatus
  /\ DOMAIN Val(response[r]).body = {"message", "file", "gemini_summary"}
  /\ Val(response[r]).body.message = "Processing complete"
IsError(r) ==
  /\ response[r] # None
  /\ Val(response[r]).status # OkStatus
  /\ DOMAIN Val(response[r]).body = {"error"}

\* the records of the collection with the id of process_file's document
RecordsOf(id) == {rec \in db : rec.id = id}

\* the bytes of run r did not parse, and extraction was attempted
ExtractFailed(r) ==
  /\ Called(r, "extract")
  /\ pdf_bytes[r] # None
  /\ ~Val(pdf_bytes[r]).valid

\* ---------------------------------------------------------------- C1
\* C1: in every run whose Embedder step failed, no record is written by the
\* run and the run's result is the error response with a non-success status.
C1_EmbedderFatal ==
  \A r \in Runs :
    (Finished(r) /\ StepResult(r, "embed") = "fail")
      => /\ StepResult(r, "store") # "stored"
         /\ IsError(r)
         /\ ~IsSuccess(r)

\* ---------------------------------------------------------------- C2
\* C2: in every run whose write to the collection raised, the run's result
\* is the error response with a non-success status, never the success one.
C2_StoreFatal ==
  \A r \in Runs :
    (Finished(r) /\ WriteRaised(r)) => (IsError(r) /\ ~IsSuccess(r))

\* ---------------------------------------------------------------- C3
\* a run in which every step succeeded and that returned the success response
Successful(r) ==
  /\ pc[r] = "Done"
  /\ IsSuccess(r)
  /\ StepResult(r, "embed") = "ok"
  /\ WriteReturned(r)

\* C3: after two successful runs, the second started after the first had
\* finished, whose extracted texts differ, the collection holds exactly one
\* record with the document id, carrying the second run's vector and metadata.
C3_IdempotentUpsert ==
  \A a, b \in Runs :
    (/\ a \in started_after[b]
     /\ Successful(a)
     /\ Successful(b)
     /\ extracted_text[a] # extracted_text[b])
      => RecordsOf(FILE_NAME) =
           { [id |-> FILE_NAME,
              embedding |-> Val(embedding_vector[b]),
              metadata |-> [file_name |-> FILE_NAME,
                            content |-> Slice(Val(extracted_text[b]), ContentLimit)]] }

\* ---------------------------------------------------------------- C4
\* C4: a run whose Summarizer failed is never aborted: it goes on to call the
\* Embedder and, when that succeeds, the writer; the record it stores is in
\* the collection; and its success response carries gemini_summary = null.
C4_SummarizerDegrade ==
  \A r \in Runs :
    /\ Called(r, "summarize") => pc[r] \in {"Embedding", "Storing", "Done"}
    /\ StepResult(r, "summarize") = "fail"
      => /\ pc[r] \in {"Embedding", "Storing", "Done"}
         /\ gemini_response[r] = None
         /\ pc[r] \in {"Storing", "Done"} => Called(r, "embed")
         /\ (pc[r] = "Done" /\ StepResult(r, "embed") = "ok") => Called(r, "store")
         /\ StepResult(r, "store") = "stored"
              => \E rec \in db : /\ rec.id = FILE_NAME
                                 /\ rec.embedding = Val(embedding_vector[r])
         /\ pc[r] = "Done"
              => /\ IsSuccess(r)
                 /\ Val(response[r]).body.gemini_summary = None

C4_Witness ==
  \E r \in Runs :
    /\ StepResult(r, "summarize") = "fail"
    /\ StepResult(r, "store") = "stored"
    /\ pc[r] = "Done"

\* ---------------------------------------------------------------- C5
\* C5: a run whose fetch or whose extraction failed is aborted at once: it
\* calls neither the Summarizer nor the Embedder nor the writer, writes no
\* record, and its result is {"error": reason} with status 500.
C5_FetchExtractFatal ==
  \A r \in Runs :
    (StepResult(r, "fetch") = "fail" \/ ExtractFailed(r))
      => /\ pc[r] = "Aborted"
         /\ ~Called(r, "summarize")
         /\ ~Called(r, "embed")
         /\ ~Called(r, "store")
         /\ extracted_text[r] = None
         /\ IsError(r)
         /\ Val(response[r]).status = ErrorStatus

C5_Witness ==
  \E a, b \in Runs :
    /\ StepResult(a, "fetch") = "fail"
    /\ ExtractFailed(b)
    /\ pc[a] = "Aborted"
    /\ pc[b] = "Aborted"

\* ---------------------------------------------------------------- C6
\* C6: whenever a run has produced the success result, that run wrote a
\* record for its document id to the collection.
C6_DoneImpliesStored ==
  \A r \in Runs :
    (pc[r] = "Done" \/ IsSuccess(r))
      => /\ StepResult(r, "store") = "stored"
         /\ RecordsOf(FILE_NAME) # {}

\* ---------------------------------------------------------------- C7
\* the step a run has just taken succeeded / failed
JustSucceeded(r) == log'[r][Len(log'[r])].result \in {"ok", "stored", "ignored"}

\* one move of run r along the pipeline's state machine
PipelineStep(r) ==
  pc'[r] # pc[r] =>
    CASE pc[r] = "idle" -> pc'[r] = "Fetching"
      [] pc[r] = "Fetching" ->
           pc'[r] = IF JustSucceeded(r) THEN "Extracting" ELSE "Aborted"
      [] pc[r] = "Extracting" ->
           pc'[r] = IF JustSucceeded(r) THEN "Summarizing" ELSE "Aborted"
      [] pc[r] = "Summarizing" -> pc'[r] = "Embedding"
      [] pc[r] = "Embedding" ->
           pc'[r] = IF JustSucceeded(r) THEN "Storing" ELSE "Aborted"
      [] pc[r] = "Storing" ->
           pc'[r] = IF JustSucceeded(r) THEN "Done" ELSE "Aborted"
      [] OTHER -> FALSE

\* C7: a run moves only along Fetching, Extracting, Summarizing, Embedding,
\* Storing, Done; Fetching, Extracting, Embedding and Storing advance when
\* their step succeeded and go to Aborted otherwise; Summarizing always
\* advances to Embedding; Done and Aborted are terminal.
C7_StateMachine == [][\A r \in Runs : PipelineStep(r)]_vars

\* ---------------------------------------------------------------- C8
\* the runs overlapped pairwise: none started after another had finished
AllConcurrent == \A a, b \in Runs : a \notin started_after[b]

\* C8: once two or more concurrent runs have all finished and all their
\* writes returned, the collection holds exactly one record with the
\* document id, carrying the vector and metadata of the last writer.
C8_LastWriterWins ==
  (/\ NumRuns >= 2
   /\ AllConcurrent
   /\ \A r \in Runs : pc[r] = "Done" /\ WriteReturned(r))
    => LET w == Val(last_writer) IN
       RecordsOf(FILE_NAME) =
         { [id |-> FILE_NAME,
            embedding |-> Val(embedding_vector[w]),
            metadata |-> [file_name |-> FILE_NAME,
                          content |-> Slice(Val(extracted_text[w]), ContentLimit)]] }

\* ---------------------------------------------------------------- C9
\* C9: the record a run stores has as metadata content the first 500
\* characters of the run's extracted text when the text is longer than 500
\* characters and the whole text otherwise, and as vector the embedding of
\* the whole text.
C9_Truncation ==
  \A r \in Runs :
    StepResult(r, "store") = "stored"
      => LET text == Val(extracted_text[r]) IN
         \E rec \in db :
           /\ rec.id = FILE_NAME
           /\ rec.metadata.content =
                IF Len(text) > ContentLimit
                  THEN [i \in 1..ContentLimit |-> text[i]]
                  ELSE text
           /\ rec.embedding = embed_content(text)
           /\ Len(text) > ContentLimit
                => rec.embedding # embed_content(rec.metadata.content)

C9_Witness ==
  \E r \in Runs :
    /\ StepResult(r, "store") = "stored"
    /\ Len(Val(extracted_text[r])) > ContentLimit
    /\ \E rec \in db : rec.id = FILE_NAME /\ Len(rec.metadata.content) = ContentLimit

\* ---------------------------------------------------------------- C10
\* C10: a zero-page document extracts to the empty text; the run is not
\* aborted and skips no step: the empty text is sent to the Embedder, and
\* when embedding and the write succeed a record with content "" is in the
\* collection and the run ends with the success result.
C10_EmptyDocument ==
  \A r \in Runs :
    /\ (Called(r, "extract") /\ pdf_bytes[r] = Some(ZeroPageDoc))
         => extracted_text[r] = Some(<<>>)
    /\ extracted_text[r] = Some(<<>>)
         => /\ pc[r] # "Aborted"
            /\ pc[r] \in {"Storing", "Done"}
                 => SubSeq(Steps(r), 1, 4) = <<"fetch", "extract", "summarize", "embed">>
            /\ StepResult(r, "embed") = "ok"
                 => /\ embedding_vector[r] = Some(embed_content(<<>>))
                    /\ pc[r] = "Done" => Called(r, "store")
            /\ StepResult(r, "store") = "stored"
                 => /\ \E rec \in db : /\ rec.id = FILE_NAME
                                       /\ rec.metadata.content = <<>>
                                       /\ rec.embedding = embed_content(<<>>)
                    /\ pc[r] = "Done"
                    /\ IsSuccess(r)

C10_Witness ==
  \E r \in Runs :
    /\ pdf_bytes[r] = Some(ZeroPageDoc)
    /\ extracted_text[r] = Some(<<>>)
    /\ StepResult(r, "store") = "stored"
    /\ pc[r] = "Done"

\* ---------------------------------------------------------------- C11
\* C11: after a failed heartbeat probe at start-up the writer is out of
\* service: no run of the process ever attempts a collection write.
C11_HeartbeatFatal ==
  heartbeat = "fail" => \A r \in Runs : ~Called(r, "store")

\* ---------------------------------------------------------------- C12
\* where page k begins in the text extracted from pages, less one
RECURSIVE PageOffset(_, _)
PageOffset(pages, k) ==
  IF k = 1 THEN 0 ELSE PageOffset(pages, k - 1) + Len(pages[k - 1]) + 1

\* text is the pages in order with one newline between consecutive pages
PagesInOrder(text, pages) ==
  LET n == Len(pages) IN
  IF n = 0 THEN text = <<>>
  ELSE /\ Len(text) = PageOffset(pages, n) + Len(pages[n])
       /\ \A k \in 1..n : \A i \in 1..Len(pages[k]) :
            text[PageOffset(pages, k) + i] = pages[k][i]
       /\ \A k \in 2..n : text[PageOffset(pages, k)] = NL

\* C12: the text extracted from a document with pages p1..pn is the page
\* texts in document order, one newline between consecutive pages, nothing
\* before the first or after the last (A, B, C give A newline B newline C);
\* from a document without pages it is the empty text.
C12_ExtractionOrdering ==
  \A r \in Runs :
    (Called(r, "extract") /\ Val(pdf_bytes[r]).valid)
      => LET pages == Val(pdf_bytes[r]).pages IN
         /\ extracted_text[r] # None
         /\ PagesInOrder(Val(extracted_text[r]), pages)
         /\ pages = << <<"A">>, <<"B">>, <<"C">> >>
              => Val(extracted_text[r]) = <<"A", NL, "B", NL, "C">>

C12_Witness ==
  \E r \in Runs :
    /\ Called(r, "extract")
    /\ pdf_bytes[r] = Some([valid |-> TRUE, pages |-> << <<"A">>, <<"B">>, <<"C">> >>])
    /\ extracted_text[r] = Some(<<"A", NL, "B", NL, "C">>)

\* ---------------------------------------------------------------- C13
\* C13: no step deletes a record or creates or changes a record whose id is
\* not the id of the document the runs process, and every record of the
\* collection has metadata file_name equal to its id.
C13_Frame ==
  /\ [][/\ db \subseteq db'
        /\ \A rec \in db' \ db : rec.id = FILE_NAME
        /\ \A rec \in db' : rec.id # FILE_NAME => rec \in db]_vars
  /\ [](\A rec \in db : rec.metadata.file_name = rec.id)

C13_Witness ==
  /\ OtherRecord \in db
  /\ \E r \in Runs : StepResult(r, "store") = "stored"
  /\ \E rec \in db : rec.id = FILE_NAME /\ rec.metadata.file_name = FILE_NAME

\* ---------------------------------------------------------------- C14
StartupCalls == {"token", "client", "get_or_create"}

\* C14: the credential fetch, the client construction and get-or-create of
\* the collection are each made once, before any run starts, and never again
\* however many runs execute.
C14_GetOrCreateOnce ==
  /\ \A c \in StartupCalls : calls[c] <= 1
  /\ (main_pc = "serving" \/ \E r \in Runs : pc[r] # "idle")
       => \A c \in StartupCalls : calls[c] = 1

C14_Witness ==
  /\ \A r \in Runs : pc[r] = "Done" /\ Called(r, "store")
  /\ \A c \in StartupCalls : calls[c] = 1

\* ---------------------------------------------------------------- C15
Collaborators == {"fetch", "extract", "summarize", "embed", "store"}

\* C15: within one run each collaborator is called at most once, whether the
\* call succeeded or failed.
C15_NoRetries ==
  \A r \in Runs :
    /\ \A i \in 1..Len(log[r]) : log[r][i].step \in Collaborators
    /\ \A c \in Collaborators :
         Cardinality({i \in 1..Len(log[r]) : log[r][i].step = c}) <= 1

C15_Witness ==
  \E a, b \in Runs :
    /\ pc[a] = "Aborted"
    /\ pc[b] = "Done"
    /\ StepResult(b, "summarize") = "fail"
    /\ StepResult(b, "store") = "unavailable"
    /\ Len(log[b]) = 5

\* ---------------------------------------------------------------- C16
\* C16: while the process serves, the token fetched at start-up is never
\* replaced and, once expired, stays expired; from then on every Storing
\* step fails and no record is written.
C16_StaleCredential ==
  [][/\ Serving => IAM_TOKEN' = IAM_TOKEN
     /\ token_expired
          => /\ token_expired'
             /\ db' = db
             /\ \A r \in Runs :
                  (pc[r] = "Storing" /\ pc'[r] # "Storing")
                    => log'[r][Len(log'[r])].result \in {"unauthorized", "NameError"}]_vars

C16_Witness ==
  /\ token_expired
  /\ \E r \in Runs : StepResult(r, "store") = "unauthorized" /\ Finished(r)
  /\ RecordsOf(FILE_NAME) = {}

\* ---------------------------------------------------------------- C17
\* the steps of run r after its start
RunStep(r) ==
  Fetching(r) \/ Extracting(r) \/ Summarizing(r) \/ Embedding(r) \/ Storing(r)

\* how far a run has come
Rank(p) ==
  CASE p = "idle" -> 0
    [] p = "Fetching" -> 1
    [] p = "Extracting" -> 2
    [] p = "Summarizing" -> 3
    [] p = "Embedding" -> 4
    [] p = "Storing" -> 5
    [] OTHER -> 6

\* C17: a started run that has not ended can always take its next step, and
\* every step brings it closer to its end, so that it ends once each of its
\* external calls has returned or raised; a run that has ended has produced
\* one response, the success result or an error result and not both, which
\* is never replaced; a run that has not ended has produced none.
C17_Termination ==
  /\ [](\A r \in Runs :
          /\ (pc[r] # "idle" /\ ~Finished(r)) => ENABLED RunStep(r)
          /\ Finished(r) <=> response[r] # None
          /\ Finished(r) => (IsSuccess(r) /\ ~IsError(r)) \/ (IsError(r) /\ ~IsSuccess(r)))
  /\ [][\A r \in Runs :
          /\ pc'[r] # pc[r] => Rank(pc'[r]) > Rank(pc[r])
          /\ log'[r] # log[r] => pc'[r] # pc[r]
          /\ response[r] # None => response'[r] = response[r]]_vars

C17_Witness ==
  \E a, b \in Runs :
    /\ Finished(a) /\ IsSuccess(a)
    /\ Finished(b) /\ IsError(b)

\* ---------------------------------------------------------------- C18
\* C18: what a run does to the collection does not depend on the summary:
\* two runs with the same extracted text whose Embedder behaved the same
\* have the same vector and both call the writer or both do not, whatever
\* their summaries; a record is made of the id, the text and its embedding
\* only, so the summary is not persisted.
C18_SummaryIndependence ==
  /\ \A a, b \in Runs :
       (/\ Finished(a) /\ Finished(b)
        /\ extracted_text[a] # None
        /\ extracted_text[a] = extracted_text[b]
        /\ StepResult(a, "embed") = StepResult(b, "embed"))
         => /\ embedding_vector[a] = embedding_vector[b]
            /\ Called(a, "store") <=> Called(b, "store")
  /\ \A r \in Runs :
       StepResult(r, "store") = "stored"
         => \E rec \in db :
              /\ DOMAIN rec = {"id", "embedding", "metadata"}
              /\ DOMAIN rec.metadata = {"file_name", "content"}
              /\ rec.id = FILE_NAME
              /\ rec.metadata.file_name = FILE_NAME
              /\ rec.embedding = embed_content(Val(extracted_text[r]))
              /\ Len(rec.metadata.content) <= Len(Val(extracted_text[r]))
              /\ \A i \in 1..Len(rec.metadata.content) :
                   rec.metadata.content[i] = Val(extracted_text[r])[i]

C18_Witness ==
  \E a, b \in Runs :
    /\ pc[a] = "Done" /\ pc[b] = "Done"
    /\ extracted_text[a] = extracted_text[b]
    /\ gemini_response[a] # None
    /\ gemini_response[b] = None
    /\ StepResult(a, "embed") = "ok" /\ StepResult(b, "embed") = "ok"
    /\ StepResult(b, "store") = "stored"

\* ---------------------------------------------------------------- C19
\* C19: a process whose client construction or get-or-create failed serves
\* requests without a collection handle: no run writes a record, and a run
\* that reaches the write still ends with a response.
C19_FailedStartup ==
  (main_pc = "serving" /\ (chroma_client = "unbound" \/ collection = "unbound"))
    => /\ collection = "unbound"
       /\ db = {OtherRecord}
       /\ \A r \in Runs :
            /\ ~WriteReturned(r)
            /\ pc[r] = "Storing" => ENABLED Storing(r)
            /\ Called(r, "store")
                 => /\ StepResult(r, "store") = "NameError"
                    /\ Finished(r)
                    /\ response[r] # None

C19_Witness ==
  /\ main_pc = "serving"
  /\ chroma_client = "bound"
  /\ collection = "unbound"
  /\ \E r \in Runs :
       /\ StepResult(r, "store") = "NameError"
       /\ pc[r] = "Done"
       /\ response[r] # None

====
